---- MODULE Spec2Model ----
(***************************************************************************)
(* SandboxMemoryAccesses (MinSFI): the pass that rewrites every memory     *)
(* access of a module so that its address is base + a value truncated to   *)
(* PointerSize bits.  The module models the IR the pass walks (functions,  *)
(* basic blocks, instructions with operand lists and use lists), the walk  *)
(* of runOnFunction with its in-place insertions and erasures, and the     *)
(* run-time value of the instructions the pass inserts.                    *)
(*                                                                         *)
(* Integers keep their width.  An i32 is a sequence of two 16-bit limbs,   *)
(* an i64 or a pointer a sequence of four, least significant limb first,   *)
(* and all arithmetic (add, and, zext, trunc, sext, signed compare) is     *)
(* done on limbs, so 2^32 and 64-bit wrap-around are exact.                *)
(***************************************************************************)
EXTENDS Integers, Sequences, FiniteSets, TLC

----------------------------------------------------------------------------
(* Fixed-width integers.                                                   *)

\* Bit widths of the pass's integer types (Type::getInt32Ty, Type::getInt64Ty).
I32Bits == 32
I64Bits == 64

\* An i32 is two limbs.
LimbBits == I32Bits \div 2
LimbBase == 2^LimbBits
LimbMax == LimbBase - 1
Limbs32 == I32Bits \div LimbBits
Limbs64 == I64Bits \div LimbBits

\* The word of n limbs holding the natural v (v < 2^31).
RECURSIVE ToWord(_, _)
ToWord(v, n) ==
  IF n = 0 THEN <<>> ELSE <<v % LimbBase>> \o ToWord(v \div LimbBase, n - 1)

\* The word of n limbs holding 2^k mod 2^(16 n): the C expression 1 << k.
Shl1(k, n) ==
  [i \in 1..n |-> IF i = (k \div LimbBits) + 1 THEN 2^(k % LimbBits) ELSE 0]

RECURSIVE AddCarry(_, _, _)
AddCarry(a, b, c) ==
  IF a = <<>> THEN <<>>
  ELSE LET s == Head(a) + Head(b) + c
       IN  <<s % LimbBase>> \o AddCarry(Tail(a), Tail(b), s \div LimbBase)

\* Two's complement add, sub and not of words of one width (wrap-around).
AddW(a, b) == AddCarry(a, b, 0)
NotW(a) == [i \in 1..Len(a) |-> LimbMax - a[i]]
SubW(a, b) == AddCarry(a, NotW(b), 1)

\* Bitwise and of two limbs, bit by bit.
RECURSIVE AndBits(_, _, _)
AndBits(x, y, n) ==
  IF n = 0 THEN 0
  ELSE (x % 2) * (y % 2) + 2 * AndBits(x \div 2, y \div 2, n - 1)

AndW(a, b) == [i \in 1..Len(a) |-> AndBits(a[i], b[i], LimbBits)]

\* zext, trunc and sext between widths.
ZExtW(a, n) == [i \in 1..n |-> IF i <= Len(a) THEN a[i] ELSE 0]
TruncW(a, n) == [i \in 1..n |-> a[i]]
IsNegW(a) == a[Len(a)] >= LimbBase \div 2
SExtW(a, n) ==
  [i \in 1..n |-> IF i <= Len(a) THEN a[i] ELSE IF IsNegW(a) THEN LimbMax ELSE 0]

\* Unsigned and signed order on words of one width.
RECURSIVE LtU(_, _)
LtU(a, b) ==
  IF a = <<>> THEN FALSE
  ELSE LET n == Len(a)
       IN  \/ a[n] < b[n]
           \/ a[n] = b[n] /\ LtU(SubSeq(a, 1, n - 1), SubSeq(b, 1, n - 1))

LeU(a, b) == a = b \/ LtU(a, b)
LeS(a, b) ==
  IF IsNegW(a) # IsNegW(b) THEN IsNegW(a) ELSE LeU(a, b)


\* The natural v (v < 2^31) as an i32 and as an i64.
W32(v) == ToWord(v, Limbs32)
W64(v) == ToWord(v, Limbs64)

----------------------------------------------------------------------------
(* Types, values and instructions of the IR.                               *)

\* A type: an integer of n bits, a pointer to a type of store size n bytes
\* (DataLayout::getTypeStoreSize of the pointee), or void.
IntTy(bits) == [k |-> "int", n |-> bits]
PtrTo(size) == [k |-> "ptr", n |-> size]
VoidTy == [k |-> "void", n |-> 0]
I32 == IntTy(I32Bits)
I64 == IntTy(I64Bits)
isPointerTy(ty) == ty.k = "ptr"
isIntegerTy(ty, bits) == ty.k = "int" /\ ty.n = bits

\* A Value used as an operand: an instruction's result, a function argument,
\* a ConstantInt, a global, or the null Value*.
InstRef(i, ty) == [k |-> "inst", id |-> i, name |-> "", val |-> <<>>, ty |-> ty]
ArgRef(nm, ty) == [k |-> "arg", id |-> 0, name |-> nm, val |-> <<>>, ty |-> ty]
ConstantInt(ty, w) == [k |-> "const", id |-> 0, name |-> "", val |-> w, ty |-> ty]
GlobalRef(nm, ty) == [k |-> "global", id |-> 0, name |-> nm, val |-> <<>>, ty |-> ty]
NULL == [k |-> "null", id |-> 0, name |-> "", val |-> <<>>, ty |-> VoidTy]

ExternalSymName_MemoryBase == "__sfi_memory_base"
ExternalSymName_PointerSize == "__sfi_pointer_size"

\* M.getOrInsertGlobal(ExternalSymName_MemoryBase, I64): a pointer to an i64.
MemBaseVar == GlobalRef(ExternalSymName_MemoryBase, PtrTo(I64Bits \div 8))

\* An instruction: its opcode class, operand list and result type.  A call
\* (an intrinsic call included) holds its arguments first and its callee
\* last, as CallInst does.
Ins(i, op, ops, ty) == [id |-> i, op |-> op, ops |-> ops, ty |-> ty]

CallOps == {"call", "intrinsic", "memcpy", "memmove", "memset",
            "atomic_load", "atomic_cmpxchg", "atomic_store", "atomic_rmw",
            "atomic_is_lock_free"}

\* The limbs of a value of a type: pointers are 64 bits wide.
Width(ty) == IF ty.k = "ptr" THEN Limbs64 ELSE ty.n \div LimbBits

\* The run-time value of an operand, given the values env gives to the
\* function's arguments and to the memory base the runtime stored.
RECURSIVE Eval(_, _, _)
Eval(ins, env, r) ==
  CASE r.k = "const" -> r.val
    [] r.k = "arg" -> env[r.name]
    [] r.k = "inst" ->
         LET i == ins[r.id]
             a == Eval(ins, env, i.ops[1])
         IN  CASE i.op = "add" -> AddW(a, Eval(ins, env, i.ops[2]))
               [] i.op = "sub" -> SubW(a, Eval(ins, env, i.ops[2]))
               [] i.op = "and" -> AndW(a, Eval(ins, env, i.ops[2]))
               [] i.op = "zext" -> ZExtW(a, Width(i.ty))
               [] i.op = "ptrtoint" -> TruncW(a, Width(i.ty))
               [] i.op = "inttoptr" ->
                    IF Len(a) < Limbs64 THEN ZExtW(a, Limbs64)
                    ELSE TruncW(a, Limbs64)
               [] i.op = "bitcast" -> a
               [] i.op = "load" /\ i.ops[1] = MemBaseVar -> env.base
               [] OTHER -> ZExtW(env.v, Width(i.ty))
    [] OTHER -> <<>>

----------------------------------------------------------------------------
(* The state of the pass.                                                  *)

VARIABLES
  minsfi_ptrsize, \* the -minsfi-ptrsize option, read by GetPointerSizeInBits
  PtrMask,        \* the ConstantInt mask, or NULL
  insts,          \* every instruction created so far, by id
  body,           \* the module: per function, per basic block, the ids in order
  MemBase,        \* runOnFunction's local: the function's mem_base load, or NULL
  nextId,         \* the id the next new instruction gets
  pc,             \* start, func, walk, done, fatal
  curFunc,        \* the function runOnModule's loop is at
  Inst,           \* the instruction runOnFunction's iterator is at
  sites,          \* history: one record per sandboxPtrOperand call
  dispatched,     \* history: the ids runOnFunction dispatched, in order
  checks,         \* history: one record per checkDoesNotHavePointerOperands call
  origInsts,      \* history: the instructions of the module before the pass
  origBody        \* history: the layout of the module before the pass

vars == <<minsfi_ptrsize, PtrMask, insts, body, MemBase, nextId, pc, curFunc,
          Inst, sites, dispatched, checks, origInsts, origBody>>

\* minsfi::GetPointerSizeInBits() and minsfi::GetAddressSubspaceSize(): the
\* configured width W and 2^W as a uint64_t.
GetPointerSizeInBits == minsfi_ptrsize
GetAddressSubspaceSize == Shl1(minsfi_ptrsize, Limbs64)

\* runOnModule, line 116 and lines 121-122: (1U << PointerSize) - 1 as an i32.
PointerSize == GetPointerSizeInBits
PtrMaskForOneTooWide(W) ==
  IF W < I32Bits THEN ConstantInt(I32, Shl1(W, Limbs32)) ELSE NULL
PtrMaskFor(W) ==
  IF W < I32Bits
  THEN ConstantInt(I32, SubW(Shl1(W, Limbs32), W32(1)))
  ELSE NULL

\* What the helpers of the pass work on: the IR and the function's cache.
PassState ==
  [insts |-> insts, body |-> body, MemBase |-> MemBase, nextId |-> nextId,
   sites |-> sites]

\* The ids of a function's instructions, and of the whole module's.
Range(s) == {s[i] : i \in 1..Len(s)}
FuncIds(fb) == UNION {Range(fb[b]) : b \in 1..Len(fb)}
ModuleIds(bd) == UNION {FuncIds(bd[f]) : f \in 1..Len(bd)}

\* Value::use_empty: no instruction of the module has the value as an operand.
Users(ins, bd, i) ==
  {j \in ModuleIds(bd) :
     \E k \in 1..Len(ins[j].ops) : ins[j].ops[k].k = "inst" /\ ins[j].ops[k].id = i}
use_empty(st, i) == Users(st.insts, st.body, i) = {}

\* new XInst(..., Inst): the new instructions go right before Inst.
InsertAfter(fb, I, new) ==
  [b \in 1..Len(fb) |->
     IF I \in Range(fb[b])
     THEN LET i == CHOOSE i \in 1..Len(fb[b]) : fb[b][i] = I
          IN  SubSeq(fb[b], 1, i) \o new \o SubSeq(fb[b], i + 1, Len(fb[b]))
     ELSE fb[b]]
InsertBefore(fb, I, new) ==
  [b \in 1..Len(fb) |->
     IF I \in Range(fb[b])
     THEN LET i == CHOOSE i \in 1..Len(fb[b]) : fb[b][i] = I
          IN  SubSeq(fb[b], 1, i - 1) \o new \o SubSeq(fb[b], i, Len(fb[b]))
     ELSE fb[b]]

\* Instruction::eraseFromParent.
eraseFromParent(st, i) ==
  [st EXCEPT !.body =
     [f \in 1..Len(@) |->
        [b \in 1..Len(@[f]) |-> SelectSeq(@[f][b], LAMBDA e : e # i)]]]

\* sandboxPtrOperand, lines 137-141: the first sandboxed pointer of the
\* function puts the load of the memory base at the front of the entry block.
acquireMemBase(st, f) ==
  IF st.MemBase = NULL
  THEN LET MemBaseInst == Ins(st.nextId, "load", <<MemBaseVar>>, I64)
       IN  [st EXCEPT !.insts = (st.nextId :> MemBaseInst) @@ @,
                      !.body[f][1] = <<st.nextId>> \o @,
                      !.MemBase = InstRef(st.nextId, I64),
                      !.nextId = @ + 1]
  ELSE st

\* Lines 173-174: int64_t MaxOffset = GetAddressSubspaceSize() - store size.
MaxOffsetIgnoringSize(ValType) == GetAddressSubspaceSize
MaxOffsetOf(ValType) == SubW(GetAddressSubspaceSize, W64(ValType.n))

\* Line 176: (Offset >= 0) && (Offset <= MaxOffset), both int64_t.
OffsetInRangeUnsigned(Offset, MaxOffset) == LeU(Offset, MaxOffset)
OffsetInRangeNoLowerBound(Offset, MaxOffset) == LeS(Offset, MaxOffset)
OffsetInRange(Offset, MaxOffset) ==
  ~IsNegW(Offset) /\ LeS(Offset, MaxOffset)

\* Lines 164-188: the pointer arithmetic of ExpandGetElementPtr,
\*   %0 = add i32 %x, <const> ; %ptr = inttoptr i32 %0 to <type>*
NoMatch ==
  [OptimizeGEP |-> FALSE, Truncated |-> NULL, OffsetConst |-> NULL,
   RedundantCast |-> 0, RedundantAdd |-> 0]
matchGEP(ins, Ptr, IsFirstClassValueAccess) ==
  IF /\ IsFirstClassValueAccess
     /\ Ptr.k = "inst"
     /\ ins[Ptr.id].op = "inttoptr"
     /\ ins[Ptr.id].ops[1].k = "inst"
     /\ ins[ins[Ptr.id].ops[1].id].op = "add"
     /\ isIntegerTy(ins[ins[Ptr.id].ops[1].id].ty, I32Bits)
     /\ ins[ins[Ptr.id].ops[1].id].ops[2].k = "const"
  THEN LET Cast == ins[Ptr.id]
           Op == ins[Cast.ops[1].id]
           CI == Op.ops[2]
           Offset == SExtW(CI.val, Limbs64)
       IN  IF OffsetInRange(Offset, MaxOffsetOf(Ptr.ty))
           THEN [OptimizeGEP |-> TRUE, Truncated |-> Op.ops[1],
                 OffsetConst |-> ConstantInt(I64, Offset),
                 RedundantCast |-> Cast.id, RedundantAdd |-> Op.id]
           ELSE NoMatch
  ELSE NoMatch

\* Line 197: if (PtrMask), on either path.
needsMaskGeneralOnly(OptimizeGEP) == PtrMask # NULL /\ ~OptimizeGEP
needsMask(OptimizeGEP) == PtrMask # NULL

\* Lines 218-222: the cast is looked at first, then the add.
eraseIfDead(st, i) == IF use_empty(st, i) THEN eraseFromParent(st, i) ELSE st
eraseDeadAddFirst(st, RedundantCast, RedundantAdd) ==
  eraseIfDead(eraseIfDead(st, RedundantAdd), RedundantCast)
eraseDeadUnchecked(st, RedundantCast, RedundantAdd) ==
  eraseFromParent(eraseFromParent(st, RedundantCast), RedundantAdd)
eraseDead(st, RedundantCast, RedundantAdd) ==
  eraseIfDead(eraseIfDead(st, RedundantCast), RedundantAdd)

\* Lines 190-208: the instructions sandboxPtrOperand creates, in the order it
\* creates them, with ids from n: ptrtoint unless the pattern matched, and if
\* masked, zext, add of the base, add of the offset if the pattern matched,
\* inttoptr.
newInsts(n, Ptr, m, masked, Base) ==
  LET g == IF m.OptimizeGEP THEN 0 ELSE 1
      k == IF masked THEN 1 ELSE 0
      o == IF m.OptimizeGEP THEN 1 ELSE 0
      Truncated0 == IF m.OptimizeGEP THEN m.Truncated ELSE InstRef(n, I32)
  IN  (IF m.OptimizeGEP THEN <<>>
       ELSE <<Ins(n, "ptrtoint", <<Ptr>>, I32)>>)
      \o (IF masked THEN <<Ins(n + g, "and", <<Truncated0, PtrMask>>, I32)>>
          ELSE <<>>)
      \o <<Ins(n + g + k, "zext",
               <<IF masked THEN InstRef(n + g, I32)
                 ELSE IF m.OptimizeGEP THEN m.Truncated ELSE InstRef(n, I32)>>, I64),
           Ins(n + g + k + 1, "add",
               <<Base, InstRef(n + g + k, I64)>>, I64)>>
      \o (IF m.OptimizeGEP
          THEN <<Ins(n + g + k + 2, "add",
                     <<InstRef(n + g + k + 1, I64), m.OffsetConst>>, I64)>>
          ELSE <<>>)
      \o <<Ins(n + g + k + o + 2, "inttoptr",
               <<InstRef(n + g + k + o + 1, I64)>>, Ptr.ty)>>

\* Lines 193-211: the new instructions go before Inst, and Inst's operand
\* becomes SandboxedPtr, the last of them.
insertSandbox(s1, f, I, OpNum, fc, Ptr, m, new) ==
  [s1 EXCEPT
     !.insts = [i \in {new[k].id : k \in 1..Len(new)} |->
                  new[CHOOSE k \in 1..Len(new) : new[k].id = i]]
               @@ [@ EXCEPT ![I].ops[OpNum + 1] =
                              InstRef(new[Len(new)].id, Ptr.ty)],
     !.body[f] = InsertBefore(@, I, [k \in 1..Len(new) |-> new[k].id]),
     !.nextId = @ + Len(new),
     !.sites = Append(@,
       [f |-> f, inst |-> I, opnum |-> OpNum, firstClass |-> fc,
        folded |-> m.OptimizeGEP, old |-> Ptr,
        X |-> m.Truncated, C |-> m.OffsetConst,
        cast |-> m.RedundantCast, add |-> m.RedundantAdd,
        base |-> s1.MemBase, new |-> [k \in 1..Len(new) |-> new[k].id]])]

\* Lines 143-223, with the memory base acquired and the pattern looked for.
sandboxMatched(s1, f, I, OpNum, fc, Ptr, m) ==
  IF m.OptimizeGEP
  THEN eraseDead(
         insertSandbox(s1, f, I, OpNum, fc, Ptr, m,
           newInsts(s1.nextId, Ptr, m, needsMask(m.OptimizeGEP), s1.MemBase)),
         m.RedundantCast, m.RedundantAdd)
  ELSE insertSandbox(s1, f, I, OpNum, fc, Ptr, m,
         newInsts(s1.nextId, Ptr, m, needsMask(m.OptimizeGEP), s1.MemBase))

sandboxAcquired(s1, f, I, OpNum, fc) ==
  sandboxMatched(s1, f, I, OpNum, fc, s1.insts[I].ops[OpNum + 1],
                 matchGEP(s1.insts, s1.insts[I].ops[OpNum + 1], fc))

\* sandboxPtrOperand, lines 130-224.
sandboxPtrOperand(st, f, I, OpNum, IsFirstClassValueAccess) ==
  sandboxAcquired(acquireMemBase(st, f), f, I, OpNum, IsFirstClassValueAccess)

\* sandboxLenOperand, lines 226-235.
sandboxLenOperandNoSet(st, f, I, OpNum) ==
  IF PtrMask # NULL
  THEN [st EXCEPT
          !.insts = (st.nextId :>
                       Ins(st.nextId, "and", <<st.insts[I].ops[OpNum + 1], PtrMask>>, I32))
                    @@ @,
          !.body[f] = InsertBefore(@, I, <<st.nextId>>),
          !.nextId = @ + 1]
  ELSE st
sandboxLenOperand(st, f, I, OpNum) ==
  IF PtrMask # NULL
  THEN LET Len0 == st.insts[I].ops[OpNum + 1]
           MaskedLen == Ins(st.nextId, "and", <<Len0, PtrMask>>, I32)
       IN  [st EXCEPT
              !.insts = (st.nextId :> MaskedLen)
                        @@ [@ EXCEPT ![I].ops[OpNum + 1] = InstRef(st.nextId, I32)],
              !.body[f] = InsertBefore(@, I, <<st.nextId>>),
              !.nextId = @ + 1]
  ELSE st

\* checkDoesNotHavePointerOperands, lines 237-249: the value of
\* hasPointerOperand when the loops are done.
hasPointerOperandCallsExempt(i) ==
  IF i.op \in CallOps THEN FALSE
  ELSE \E k \in 1..Len(i.ops) : isPointerTy(i.ops[k].ty)
hasPointerOperandWithCallee(i) ==
  \E k \in 1..Len(i.ops) : isPointerTy(i.ops[k].ty)
hasPointerOperand(i) ==
  IF i.op \in CallOps
  THEN \E k \in 1..(Len(i.ops) - 1) : isPointerTy(i.ops[k].ty)
  ELSE \E k \in 1..Len(i.ops) : isPointerTy(i.ops[k].ty)

----------------------------------------------------------------------------
(* The modules the pass is run on.                                         *)

\* The most accesses that share one inttoptr, and the most functions of a
\* module.
MaxAccesses == 2
MaxFuncs == 2

ArgX == ArgRef("x", I32)
ArgV == ArgRef("v", I32)
ArgLen == ArgRef("len", I32)
ArgP(sz) == ArgRef("p", PtrTo(sz))
Callee(nm) == GlobalRef(nm, PtrTo(0))
CI32(v) == ConstantInt(I32, W32(v))

\* The first-class accesses and the bulk operations of runOnFunction's
\* dispatch, lines 262-283.
FirstClassOps == {"load", "store", "atomic_load", "atomic_cmpxchg",
                  "atomic_store", "atomic_rmw", "atomic_is_lock_free"}
BulkOps == {"memcpy", "memmove", "memset"}

\* The operand index (from 0) of the address operands of each kind.
StorePtrOperandWrong == 1 - 1
StorePtrOperand == 1
LenOperand == 2

\* An access of kind op through ptr, accessing sz bytes.
Access(i, op, ptr, sz) ==
  CASE op = "load" -> Ins(i, op, <<ptr>>, IntTy(8 * sz))
    [] op = "store" -> Ins(i, op, <<ArgV, ptr>>, VoidTy)
    [] op \in {"memcpy", "memmove"} ->
         Ins(i, op, <<ptr, ArgP(1), ArgLen, CI32(1), CI32(0), Callee(op)>>, VoidTy)
    [] op = "memset" ->
         Ins(i, op, <<ptr, ArgV, ArgLen, CI32(1), CI32(0), Callee(op)>>, VoidTy)
    [] op = "atomic_load" ->
         Ins(i, op, <<ptr, CI32(6), Callee(op)>>, IntTy(8 * sz))
    [] op = "atomic_cmpxchg" ->
         Ins(i, op, <<ptr, ArgV, ArgV, CI32(6), CI32(6), Callee(op)>>, IntTy(8 * sz))
    [] op = "atomic_store" ->
         Ins(i, op, <<ArgV, ptr, CI32(6), Callee(op)>>, VoidTy)
    [] op = "atomic_rmw" ->
         Ins(i, op, <<CI32(1), ptr, ArgV, CI32(6), Callee(op)>>, IntTy(8 * sz))
    [] op = "atomic_is_lock_free" ->
         Ins(i, op, <<CI32(sz), ptr, Callee(op)>>, IntTy(1))

\* The instructions that compute the pointer of an access, by shape, with
\* ids from b + 1; the pointer is the last one's result (or the argument p).
Shapes == {"addc", "addv", "cadd", "sub", "add64", "cast", "arg", "bitcast"}
ShapePre(b, shape, C, sz) ==
  CASE shape = "addc" ->
         <<Ins(b + 1, "add", <<ArgX, ConstantInt(I32, C)>>, I32),
           Ins(b + 2, "inttoptr", <<InstRef(b + 1, I32)>>, PtrTo(sz))>>
    [] shape = "addv" ->
         <<Ins(b + 1, "add", <<ArgX, ArgV>>, I32),
           Ins(b + 2, "inttoptr", <<InstRef(b + 1, I32)>>, PtrTo(sz))>>
    [] shape = "cadd" ->
         <<Ins(b + 1, "add", <<ConstantInt(I32, C), ArgX>>, I32),
           Ins(b + 2, "inttoptr", <<InstRef(b + 1, I32)>>, PtrTo(sz))>>
    [] shape = "sub" ->
         <<Ins(b + 1, "sub", <<ArgX, ConstantInt(I32, C)>>, I32),
           Ins(b + 2, "inttoptr", <<InstRef(b + 1, I32)>>, PtrTo(sz))>>
    [] shape = "add64" ->
         <<Ins(b + 1, "zext", <<ArgX>>, I64),
           Ins(b + 2, "add",
               <<InstRef(b + 1, I64), ConstantInt(I64, ZExtW(C, Limbs64))>>, I64),
           Ins(b + 3, "inttoptr", <<InstRef(b + 2, I64)>>, PtrTo(sz))>>
    [] shape = "cast" ->
         <<Ins(b + 1, "inttoptr", <<ArgX>>, PtrTo(sz))>>
    [] shape = "bitcast" ->
         <<Ins(b + 1, "bitcast", <<ArgP(1)>>, PtrTo(sz))>>
    [] OTHER -> <<>>

\* A function of one block: the pointer computation, n accesses through the
\* one pointer (the first of kind op, the others loads), with extra an
\* unrelated use of the first instruction, and ret.
AccessFn(b, d) ==
  LET pre == ShapePre(b, d.shape, d.C, d.sz)
      np == Len(pre)
      ptr == IF np = 0 THEN ArgP(d.sz) ELSE InstRef(b + np, PtrTo(d.sz))
      acc == [i \in 1..d.n |->
                Access(b + np + i, IF i = 1 THEN d.op ELSE "load", ptr, d.sz)]
      use == IF d.extra
             THEN <<Ins(b + np + d.n + 1, "mul", <<InstRef(b + 1, I32), ArgV>>, I32)>>
             ELSE <<>>
  IN  <<pre \o acc \o use \o <<Ins(b + np + d.n + Len(use) + 1, "ret", <<>>, VoidTy)>>>>

\* A function of instructions the pass only validates.
CheckFn(b, d) ==
  CASE d.shape = "ok" ->
         <<<<Ins(b + 1, "ptrtoint", <<ArgP(1)>>, I32),
             Ins(b + 2, "bitcast", <<ArgP(1)>>, PtrTo(4)),
             Ins(b + 3, "call", <<ArgX, InstRef(b + 1, I32), Callee("f")>>, I32),
             Ins(b + 4, "call", <<Callee("g")>>, VoidTy),
             Ins(b + 5, "intrinsic", <<ArgX, Callee("llvm.ctlz")>>, I32),
             Ins(b + 6, "mul", <<ArgX, InstRef(b + 3, I32)>>, I32),
             Ins(b + 7, "ret", <<InstRef(b + 6, I32)>>, VoidTy)>>>>
    [] d.shape = "callptr" ->
         <<<<Ins(b + 1, "call", <<ArgX, ArgP(1), Callee("f")>>, I32),
             Ins(b + 2, "ret", <<>>, VoidTy)>>>>
    [] d.shape = "intrptr" ->
         <<<<Ins(b + 1, "intrinsic", <<ArgP(1), Callee("llvm.prefetch")>>, VoidTy),
             Ins(b + 2, "ret", <<>>, VoidTy)>>>>
    [] d.shape = "icmp" ->
         <<<<Ins(b + 1, "mul", <<ArgX, ArgX>>, I32),
             Ins(b + 2, "icmp", <<ArgP(1), ArgP(1)>>, IntTy(1)),
             Ins(b + 3, "ret", <<>>, VoidTy)>>>>
    [] d.shape = "invoke" ->
         <<<<Ins(b + 1, "invoke", <<ArgX, Callee("f")>>, I32),
             Ins(b + 2, "ret", <<>>, VoidTy)>>>>
    [] d.shape = "retptr" ->
         <<<<Ins(b + 1, "ret", <<ArgP(1)>>, VoidTy)>>>>
    [] OTHER -> <<<<Ins(b + 1, "ret", <<>>, VoidTy)>>>>

\* A function of three blocks whose layout is not its dominance order: the
\* load of the second block uses the inttoptr of the third; with extra, a
\* store of the third block uses it too.
BlocksFn(b, d) ==
  <<<<Ins(b + 1, "mul", <<ArgX, ArgX>>, I32), Ins(b + 2, "br", <<>>, VoidTy)>>,
    <<Access(b + 3, d.op, InstRef(b + 6, PtrTo(d.sz)), d.sz),
      Ins(b + 4, "br", <<>>, VoidTy)>>,
    <<Ins(b + 5, "add", <<ArgX, ConstantInt(I32, d.C)>>, I32),
      Ins(b + 6, "inttoptr", <<InstRef(b + 5, I32)>>, PtrTo(d.sz))>>
    \o (IF d.extra
        THEN <<Access(b + 7, "store", InstRef(b + 6, PtrTo(d.sz)), d.sz)>>
        ELSE <<>>)
    \o <<Ins(b + 8, "br", <<>>, VoidTy)>>>>

\* A function by its description; a declaration has no blocks.
Desc(kind, shape, op, C, sz, n, extra) ==
  [kind |-> kind, shape |-> shape, op |-> op, C |-> C, sz |-> sz, n |-> n,
   extra |-> extra]
FnBlocks(b, d) ==
  CASE d.kind = "access" -> AccessFn(b, d)
    [] d.kind = "check" -> CheckFn(b, d)
    [] d.kind = "blocks" -> BlocksFn(b, d)
    [] OTHER -> <<>>

\* Ids of function f of a module are above (f - 1) * IdStride.
IdStride == MaxAccesses + 8
Flat(blocks) ==
  IF blocks = <<>> THEN <<>>
  ELSE LET RECURSIVE cat(_)
           cat(k) == IF k = 0 THEN <<>> ELSE cat(k - 1) \o blocks[k]
       IN  cat(Len(blocks))
BuildModule(ds) ==
  LET fb == [f \in 1..Len(ds) |-> FnBlocks((f - 1) * IdStride, ds[f])]
      all == UNION {Range(Flat(fb[f])) : f \in 1..Len(ds)}
  IN  [insts |-> [i \in {r.id : r \in all} |-> CHOOSE r \in all : r.id = i],
       body |-> [f \in 1..Len(ds) |->
                   [b \in 1..Len(fb[f]) |->
                      [i \in 1..Len(fb[f][b]) |-> fb[f][b][i].id]]]]

\* The constants of the add: 0, 16, -4, 2^31 - 1, and around the largest
\* offset 2^W - sz that can be folded.
Sizes == {1, 4, 8}
Consts(W, sz) ==
  LET edge == SubW(Shl1(W, Limbs32), W32(sz))
  IN  {W32(0), W32(16), NotW(W32(3)), NotW(Shl1(I32Bits - 1, Limbs32)),
       edge, AddW(edge, W32(1))}

\* Functions for modules of several functions.
Catalogue ==
  <<Desc("access", "addc", "load", W32(16), 4, 1, FALSE),
    Desc("decl", "", "", <<>>, 0, 0, FALSE),
    Desc("check", "ok", "", <<>>, 0, 0, FALSE),
    Desc("access", "arg", "store", W32(0), 4, 2, FALSE),
    Desc("blocks", "", "load", W32(16), 4, 0, TRUE),
    Desc("check", "ret", "", <<>>, 0, 0, FALSE),
    Desc("access", "addc", "memcpy", W32(16), 1, 1, FALSE),
    Desc("check", "callptr", "", <<>>, 0, 0, FALSE),
    Desc("access", "addc", "atomic_rmw", W32(16), 4, 1, TRUE),
    Desc("check", "icmp", "", <<>>, 0, 0, FALSE),
    Desc("blocks", "", "atomic_load", W32(16), 4, 0, FALSE),
    Desc("check", "intrptr", "", <<>>, 0, 0, FALSE),
    Desc("access", "cast", "memset", W32(0), 1, 1, FALSE),
    Desc("check", "invoke", "", <<>>, 0, 0, FALSE),
    Desc("check", "retptr", "", <<>>, 0, 0, FALSE)>>

ModuleDescs(W) ==
  \* one first-class access through add-of-constant, every constant and size
  UNION {{<<Desc("access", "addc", op, C, sz, 1, FALSE)>> :
            op \in FirstClassOps, C \in Consts(W, sz)} : sz \in Sizes}
  \* every shape of pointer under first-class and bulk accesses
  \cup {<<Desc("access", sh, op, W32(16), 4, 1, FALSE)>> :
          sh \in Shapes, op \in {"load", "store", "atomic_store"} \cup BulkOps}
  \* accesses that share one inttoptr, and an add with another user
  \cup {<<Desc("access", "addc", op, C, 4, n, e)>> :
          op \in {"load", "store"}, C \in {W32(16), NotW(W32(3))},
          n \in 1..MaxAccesses, e \in BOOLEAN}
  \* runs of the catalogue
  \cup {SubSeq(Catalogue, i, j) :
          <<i, j>> \in {t \in (1..Len(Catalogue)) \X (1..Len(Catalogue)) :
                         t[1] <= t[2] /\ t[2] < t[1] + MaxFuncs}}

----------------------------------------------------------------------------
(* The pass.                                                               *)

Init ==
  /\ minsfi_ptrsize \in 1..I32Bits
  /\ PtrMask = NULL
  /\ \E ds \in ModuleDescs(minsfi_ptrsize) :
       LET M == BuildModule(ds)
       IN  /\ insts = M.insts
           /\ body = M.body
           /\ nextId = Len(ds) * IdStride + 1
  /\ MemBase = NULL
  /\ pc = "start"
  /\ curFunc = 0
  /\ Inst = 0
  /\ sites = <<>>
  /\ dispatched = <<>>
  /\ checks = <<>>
  /\ origInsts = insts
  /\ origBody = body

\* runOnModule, lines 101-124: the globals, the mask, then the first function.
runOnModule ==
  /\ pc = "start"
  /\ PtrMask' = PtrMaskFor(PointerSize)
  /\ pc' = "func"
  /\ curFunc' = 1
  /\ UNCHANGED <<minsfi_ptrsize, insts, body, MemBase, nextId, Inst, sites,
                 dispatched, checks, origInsts, origBody>>

\* runOnFunction, line 257: Value *MemBase = NULL.
EntryMemBaseKept(prev) == prev
EntryMemBase(prev) == NULL

\* runOnModule's loop, lines 124-127, and runOnFunction's entry, lines
\* 257-260: the walk starts at the first instruction of the first block; a
\* function without blocks is done at once.
runOnFunction ==
  /\ pc = "func"
  /\ IF curFunc > Len(body)
     THEN /\ pc' = "done"
          /\ UNCHANGED <<MemBase, curFunc, Inst>>
     ELSE /\ MemBase' = EntryMemBase(MemBase)
          /\ IF body[curFunc] = <<>>
             THEN /\ pc' = "func"
                  /\ curFunc' = curFunc + 1
                  /\ Inst' = Inst
             ELSE /\ pc' = "walk"
                  /\ curFunc' = curFunc
                  /\ Inst' = body[curFunc][1][1]
  /\ UNCHANGED <<minsfi_ptrsize, PtrMask, insts, body, nextId, sites,
                 dispatched, checks, origInsts, origBody>>

\* ++Inst, and ++BB at the end of a block: the instruction after I in the
\* function as it is now, or 0 at the end of the function.
NextInst(fb, I) ==
  LET b == CHOOSE b \in 1..Len(fb) : I \in Range(fb[b])
      i == CHOOSE i \in 1..Len(fb[b]) : fb[b][i] = I
  IN  IF i < Len(fb[b]) THEN fb[b][i + 1]
      ELSE IF b < Len(fb) THEN fb[b + 1][1]
      ELSE 0

\* One iteration of runOnFunction's loop has left the IR as st.
Step(st, fatal, chk) ==
  /\ insts' = st.insts
  /\ body' = st.body
  /\ MemBase' = st.MemBase
  /\ nextId' = st.nextId
  /\ sites' = st.sites
  /\ dispatched' = Append(dispatched, Inst)
  /\ checks' = checks \o chk
  /\ IF fatal
     THEN pc' = "fatal" /\ UNCHANGED <<curFunc, Inst>>
     ELSE LET n == NextInst(st.body[curFunc], Inst)
          IN  IF n = 0
              THEN pc' = "func" /\ curFunc' = curFunc + 1 /\ Inst' = Inst
              ELSE pc' = "walk" /\ curFunc' = curFunc /\ Inst' = n
  /\ UNCHANGED <<minsfi_ptrsize, PtrMask, origInsts, origBody>>

\* report_fatal_error if the instruction has a pointer-type operand.
Validate ==
  Step(PassState, hasPointerOperand(insts[Inst]),
       <<[inst |-> Inst, fatal |-> hasPointerOperand(insts[Inst])]>>)

\* Lines 262-263.
VisitLoad ==
  /\ pc = "walk"
  /\ insts[Inst].op = "load"
  /\ Step(sandboxPtrOperand(PassState, curFunc, Inst, 0, TRUE), FALSE, <<>>)

\* Lines 264-265.
VisitStore ==
  /\ pc = "walk"
  /\ insts[Inst].op = "store"
  /\ Step(sandboxPtrOperand(PassState, curFunc, Inst, StorePtrOperand, TRUE),
          FALSE, <<>>)

\* Lines 266-269.
VisitMemTransfer ==
  /\ pc = "walk"
  /\ insts[Inst].op \in {"memcpy", "memmove"}
  /\ Step(sandboxLenOperand(
            sandboxPtrOperand(
              sandboxPtrOperand(PassState, curFunc, Inst, 0, FALSE),
              curFunc, Inst, 1, FALSE),
            curFunc, Inst, LenOperand),
          FALSE, <<>>)

\* Lines 270-272.
VisitMemSet ==
  /\ pc = "walk"
  /\ insts[Inst].op = "memset"
  /\ Step(sandboxLenOperand(
            sandboxPtrOperand(PassState, curFunc, Inst, 0, FALSE),
            curFunc, Inst, LenOperand),
          FALSE, <<>>)

\* Lines 275-278.
VisitAtomicLoadCmpxchg ==
  /\ pc = "walk"
  /\ insts[Inst].op \in {"atomic_load", "atomic_cmpxchg"}
  /\ Step(sandboxPtrOperand(PassState, curFunc, Inst, 0, TRUE), FALSE, <<>>)

\* Lines 279-283.
VisitAtomicStoreRmw ==
  /\ pc = "walk"
  /\ insts[Inst].op \in {"atomic_store", "atomic_rmw", "atomic_is_lock_free"}
  /\ Step(sandboxPtrOperand(PassState, curFunc, Inst, 1, TRUE), FALSE, <<>>)

\* Lines 284-285: any other intrinsic.
VisitOtherIntrinsic ==
  /\ pc = "walk"
  /\ insts[Inst].op = "intrinsic"
  /\ Validate

\* Line 287: ptrtoint and bitcast are let through.
VisitWhitelisted ==
  /\ pc = "walk"
  /\ insts[Inst].op \in {"ptrtoint", "bitcast"}
  /\ Step(PassState, FALSE, <<>>)

\* Lines 287-288: everything else.
VisitOther ==
  /\ pc = "walk"
  /\ insts[Inst].op \notin
       FirstClassOps \cup BulkOps \cup {"intrinsic", "ptrtoint", "bitcast"}
  /\ Validate

Next ==
  \/ runOnModule
  \/ runOnFunction
  \/ VisitLoad
  \/ VisitStore
  \/ VisitMemTransfer
  \/ VisitMemSet
  \/ VisitAtomicLoadCmpxchg
  \/ VisitAtomicStoreRmw
  \/ VisitOtherIntrinsic
  \/ VisitWhitelisted
  \/ VisitOther

Spec == Init /\ [][Next]_vars

----------------------------------------------------------------------------
(* Run-time values the properties are checked for.                         *)

\* v mod 2^W, limb by limb: what masking with (1 << W) - 1 has to give.
ModPow2(w, W) ==
  [i \in 1..Len(w) |->
     IF LimbBits * i <= W THEN w[i]
     ELSE IF LimbBits * (i - 1) >= W THEN 0
     ELSE w[i] % 2^(W - LimbBits * (i - 1))]

\* 32-bit values of %x and of a length: 0, 2^W - 1, 2^W, 2^32 - 1,
\* 0x02000000 and 0x56781234.
XVals(W) ==
  {W32(0), SubW(Shl1(W, Limbs32), W32(1)), Shl1(W, Limbs32), NotW(W32(0)),
   <<0, 512>>, <<4660, 22136>>}

\* The runtime stores in __sfi_memory_base the base of a region of 2^W bytes
\* that a guard region of the same size follows: both lie in the 64-bit
\* address space.  0, 2^32 + 4096, and the highest base there is.
BaseVals(W) ==
  {W64(0), <<4096, 0, 1, 0>>, SubW(W64(0), Shl1(W + 1, Limbs64))}

\* Pointer arguments carry bits above the low 32 when the base is not 0.
Envs(W) ==
  {[x |-> xv, len |-> xv, v |-> W32(7), base |-> bv,
    p |-> xv \o (IF bv = W64(0) THEN <<0, 0>> ELSE <<5, 1>>)] :
     xv \in XVals(W), bv \in BaseVals(W)}

W == minsfi_ptrsize
SiteSet == Range(sites)

\* The sites whose run-time values a state is checked for: those of the
\* instruction just dispatched and, when the pass is done, all of them.
JustDispatched(i) == dispatched # <<>> /\ dispatched[Len(dispatched)] = i
ValueSites == {s \in SiteSet : pc = "done" \/ JustDispatched(s.inst)}
Present == ModuleIds(body)
OrigIds == DOMAIN origInsts

\* The address a rewritten operand holds at run time, and the operand the
\* instruction had before the pass.
Addr(s, e) == Eval(insts, e, insts[s.inst].ops[s.opnum + 1])
OrigOperand(s) == origInsts[s.inst].ops[s.opnum + 1]
NewOps(s) == {insts[s.new[k]].op : k \in 1..Len(s.new)}

----------------------------------------------------------------------------
(* C1.  General path: the rewritten address operand of a load, store or    *)
(* atomic is base + zext(low 32 bits of the original pointer, masked with  *)
(* (1 << W) - 1 when W < 32 and unmasked when W = 32, where no mask        *)
(* constant exists), and so lies in [base, base + 2^W).                    *)
C1_GeneralSites == {s \in SiteSet : s.firstClass /\ ~s.folded}
C1_GeneralPathBounded ==
  /\ pc # "start" => (PtrMask = NULL <=> W = I32Bits)
  /\ \A s \in C1_GeneralSites :
       /\ W = I32Bits => NewOps(s) = {"ptrtoint", "zext", "add", "inttoptr"}
       /\ W < I32Bits => NewOps(s) = {"ptrtoint", "and", "zext", "add", "inttoptr"}
       /\ \A e \in (IF s \in ValueSites THEN Envs(W) ELSE {}) :
            LET low == ModPow2(Eval(origInsts, e, OrigOperand(s)), I32Bits)
                off == IF W < I32Bits THEN ModPow2(low, W) ELSE low
                addr == Addr(s, e)
            IN  /\ addr = AddW(e.base, off)
                /\ LeU(e.base, addr)
                /\ LtU(SubW(addr, e.base), Shl1(W, Limbs64))

\* A pointer with bits at and above 2^W went through the general path.
C1_Witness ==
  /\ pc = "done"
  /\ W < I32Bits
  /\ \E s \in C1_GeneralSites : \E e \in Envs(W) :
       /\ ~LtU(Eval(origInsts, e, OrigOperand(s)), Shl1(I32Bits, Limbs64))
       /\ ~LtU(ModPow2(Eval(origInsts, e, OrigOperand(s)), I32Bits),
               Shl1(W, Limbs64))

----------------------------------------------------------------------------
(* C2.  Folded path, as claimed: the rewritten address of an operand       *)
(* inttoptr(add i32 X, C) is base + zext(X) + C with X unmasked, for every *)
(* W.                                                                      *)
C2_FoldedSites == {s \in SiteSet : s.folded}
C2_FoldedUnmasked ==
  \A s \in C2_FoldedSites \cap ValueSites : \A e \in Envs(W) :
    Addr(s, e) =
      AddW(AddW(e.base, ZExtW(Eval(origInsts, e, s.X), Limbs64)), s.C.val)

(* C2, amended.  On the folded path only the ptrtoint is skipped: the      *)
(* rewritten address is base + zext(X AND ((1 << W) - 1)) + C when W < 32, *)
(* and base + zext(X) + C when W = 32.                                     *)
C2_FoldedMasked ==
  \A s \in C2_FoldedSites :
    /\ s.X = origInsts[s.add].ops[1]
    /\ s.C.val = ZExtW(origInsts[s.add].ops[2].val, Limbs64)
    /\ W = I32Bits => NewOps(s) = {"zext", "add", "inttoptr"}
    /\ W < I32Bits => NewOps(s) = {"and", "zext", "add", "inttoptr"}
    /\ \A e \in (IF s \in ValueSites THEN Envs(W) ELSE {}) :
         LET x == Eval(origInsts, e, s.X)
             xm == IF W < I32Bits THEN ModPow2(x, W) ELSE x
         IN  Addr(s, e) = AddW(AddW(e.base, ZExtW(xm, Limbs64)), s.C.val)

\* Scenario C: 2^W = 1024, add i32 %x, 16, a load of 4 bytes, %x out of range.
C2_Witness ==
  /\ pc = "done"
  /\ W = 10
  /\ \E s \in C2_FoldedSites :
       /\ origInsts[s.inst].op = "load"
       /\ s.C.val = W64(16)
       /\ s.old.ty.n = 4
       /\ \E e \in Envs(W) : Eval(origInsts, e, s.X) # ModPow2(Eval(origInsts, e, s.X), W)

----------------------------------------------------------------------------
(* C3.  Folded path: C >= 0 and C + store size <= 2^W, and every byte of   *)
(* the access [addr, addr + size) lies in [base, base + 2 * 2^W).          *)
C3_FoldedInGuard ==
  \A s \in C2_FoldedSites :
    LET size == W64(s.old.ty.n)
    IN  /\ ~IsNegW(s.C.val)
        /\ LeU(AddW(s.C.val, size), Shl1(W, Limbs64))
        /\ \A e \in (IF s \in ValueSites THEN Envs(W) ELSE {}) :
             LET addr == Addr(s, e)
                 off == SubW(addr, e.base)
             IN  /\ LeU(e.base, addr)
                 /\ LeU(off, AddW(off, size))
                 /\ LeU(AddW(off, size), Shl1(W + 1, Limbs64))

\* An access that starts in the guard region, past base + 2^W.
C3_Witness ==
  \E s \in C2_FoldedSites : \E e \in Envs(W) :
    ~LtU(SubW(Addr(s, e), e.base), Shl1(W, Limbs64))

----------------------------------------------------------------------------
(* C4.  sandboxPtrOperand folds the offset exactly when the access is a    *)
(* load, store or atomic, its pointer is an inttoptr of a 32-bit add whose *)
(* second operand is a constant C, C >= 0 as a signed value, and           *)
(* C + store size <= 2^W; otherwise it takes the general path, and it      *)
(* never raises an error.                                                  *)
C4_Foldable(s) ==
  LET Ptr == OrigOperand(s)
  IN  /\ origInsts[s.inst].op \in FirstClassOps
      /\ Ptr.k = "inst"
      /\ origInsts[Ptr.id].op = "inttoptr"
      /\ origInsts[Ptr.id].ops[1].k = "inst"
      /\ LET Op == origInsts[origInsts[Ptr.id].ops[1].id]
         IN  /\ Op.op = "add"
             /\ Op.ty = I32
             /\ Op.ops[2].k = "const"
             /\ Op.ops[2].val[Limbs32] < LimbBase \div 2
             /\ LeU(AddW(ZExtW(Op.ops[2].val, Limbs64), W64(Ptr.ty.n)),
                    Shl1(W, Limbs64))
C4_PathSelection ==
  /\ \A s \in SiteSet : s.folded <=> C4_Foldable(s)
  /\ pc = "fatal" => origInsts[Inst].op \notin FirstClassOps \cup BulkOps

\* Both sides of the size bound: C + size = 2^W folded, C + size = 2^W + 1 not.
C4_Witness ==
  /\ pc = "done"
  /\ \E s \in SiteSet :
       /\ origInsts[s.inst].op \in FirstClassOps
       /\ OrigOperand(s).k = "inst"
       /\ origInsts[OrigOperand(s).id].op = "inttoptr"
       /\ origInsts[OrigOperand(s).id].ops[1].k = "inst"
       /\ LET Op == origInsts[origInsts[OrigOperand(s).id].ops[1].id]
              sum == AddW(ZExtW(Op.ops[2].val, Limbs64), W64(OrigOperand(s).ty.n))
          IN  /\ Op.op = "add"
              /\ Op.ops[2].k = "const"
              /\ \/ s.folded /\ sum = Shl1(W, Limbs64)
                 \/ ~s.folded /\ sum = AddW(Shl1(W, Limbs64), W64(1))

----------------------------------------------------------------------------
(* C5.  The length operand of every memcpy, memmove and memset the pass    *)
(* has dispatched is the original length AND (2^W - 1), hence at most the  *)
(* mask, when W < 32; when W = 32 it is the original operand and no        *)
(* instruction is inserted for it.                                         *)
C5_Bulk == {i \in Range(dispatched) : origInsts[i].op \in BulkOps}
C5_SiteIds == UNION {Range(s.new) \cup {s.base.id} : s \in SiteSet}
C5_LengthMasked ==
  \A i \in C5_Bulk :
    LET cur == insts[i].ops[LenOperand + 1]
        old == origInsts[i].ops[LenOperand + 1]
    IN  IF W < I32Bits
        THEN /\ cur # old
             /\ \A e \in (IF pc = "done" \/ JustDispatched(i) THEN Envs(W) ELSE {}) :
                  /\ Eval(insts, e, cur) = ModPow2(Eval(origInsts, e, old), W)
                  /\ LeU(Eval(insts, e, cur), SubW(Shl1(W, Limbs32), W32(1)))
        ELSE /\ cur = old
             /\ (Present \ OrigIds) \subseteq C5_SiteIds

\* Scenario B: W = 24 and a memset of length 0x02000000, which becomes 0.
C5_Witness ==
  /\ pc = "done"
  /\ W = 24
  /\ \E i \in C5_Bulk : \E e \in Envs(W) :
       /\ origInsts[i].op = "memset"
       /\ Eval(origInsts, e, origInsts[i].ops[LenOperand + 1]) = <<0, 512>>
       /\ Eval(insts, e, insts[i].ops[LenOperand + 1]) = W32(0)

----------------------------------------------------------------------------
(* C6.  The pass ends without a fatal error exactly when every instruction *)
(* that is not a load, store, memcpy, memmove, memset, handled atomic,     *)
(* ptrtoint or bitcast has no pointer-typed operand, where of a call (an   *)
(* unhandled intrinsic included) only the arguments count; and then no     *)
(* such instruction of the transformed module has one either.              *)
C6_Handled == FirstClassOps \cup BulkOps \cup {"ptrtoint", "bitcast"}
C6_Offends(i) ==
  /\ i.op \notin C6_Handled
  /\ \E k \in 1..Len(i.ops) :
       /\ isPointerTy(i.ops[k].ty)
       /\ i.op \in {"call", "intrinsic"} => k < Len(i.ops)
----------------------------------------------------------------------------
(* C7, as claimed.  A call that passes a pointer-typed argument causes no  *)
(* fatal error; an unrecognized instruction that is not a call and has a   *)
(* pointer-typed operand causes one.                                       *)
C7_HasPtrArg(i) == \E k \in 1..(Len(i.ops) - 1) : isPointerTy(i.ops[k].ty)
C7_HasPtrOperand(i) == \E k \in 1..Len(i.ops) : isPointerTy(i.ops[k].ty)
C7_CallWithPointerArgPasses ==
  \A c \in Range(checks) :
    IF insts[c.inst].op = "call"
    THEN C7_HasPtrArg(insts[c.inst]) => ~c.fatal
    ELSE C7_HasPtrOperand(insts[c.inst]) => c.fatal

(* C7, amended.  A call causes a fatal error exactly when one of its       *)
(* arguments is pointer-typed (its callee operand alone never does); an    *)
(* unrecognized instruction that is not a call causes one exactly when one *)
(* of its operands is pointer-typed.                                       *)
C7_CallWithPointerArgFatal ==
  /\ \A c \in Range(checks) :
       /\ c.fatal <=>
            IF insts[c.inst].op \in {"call", "intrinsic"}
            THEN C7_HasPtrArg(insts[c.inst])
            ELSE C7_HasPtrOperand(insts[c.inst])
       /\ c.fatal => pc = "fatal" /\ Inst = c.inst
  /\ \A i \in Range(dispatched) :
       insts[i].op \notin C6_Handled => \E c \in Range(checks) : c.inst = i

\* A call with a pointer-typed argument has stopped the pass.
C7_Witness ==
  /\ pc = "fatal"
  /\ insts[Inst].op = "call"
  /\ C7_HasPtrArg(insts[Inst])

----------------------------------------------------------------------------
(* C8, as claimed.  After the pass every function holds exactly one        *)
(* synthesized load of the memory base.                                    *)
C8_BaseLoads(f) ==
  {i \in FuncIds(body[f]) \ OrigIds :
     insts[i].op = "load" /\ insts[i].ops[1] = MemBaseVar}
C8_SitesOf(f) == {s \in SiteSet : s.f = f}
C8_Defined == {f \in 1..Len(body) : body[f] # <<>>}
C8_OneLoadInEveryFunction ==
  pc = "done" => \A f \in C8_Defined : Cardinality(C8_BaseLoads(f)) = 1

(* C8, amended.  A function with at least one sandboxing site holds        *)
(* exactly one synthesized load of the memory base, and a function with    *)
(* none holds none; the load is the first instruction of the entry block,  *)
(* every site of the function adds that load's value, and no site uses the *)
(* load of another function.  This holds from the first site on.           *)
C8_OneLoadPerSandboxedFunction ==
  \A f \in C8_Defined :
    IF C8_SitesOf(f) = {}
    THEN C8_BaseLoads(f) = {}
    ELSE /\ Cardinality(C8_BaseLoads(f)) = 1
         /\ body[f][1][1] \in C8_BaseLoads(f)
         /\ \A s \in C8_SitesOf(f) :
              /\ s.inst \in FuncIds(body[f])
              /\ s.base.id \in C8_BaseLoads(f)
              /\ \E k \in 1..Len(s.new) :
                   /\ insts[s.new[k]].op = "add"
                   /\ insts[s.new[k]].ops[1].k = "inst"
                   /\ insts[s.new[k]].ops[1].id \in C8_BaseLoads(f)
              /\ \A k \in 1..Len(s.new) : \A o \in 1..Len(insts[s.new[k]].ops) :
                   LET r == insts[s.new[k]].ops[o]
                   IN  (r.k = "inst" /\ insts[r.id].op = "load"
                          /\ insts[r.id].ops[1] = MemBaseVar)
                       => r.id \in C8_BaseLoads(f)

\* Two functions with sites, the second with sites outside its entry block.
C8_Witness ==
  /\ pc = "done"
  /\ Len(body) = 2
  /\ \A f \in 1..2 : Cardinality(C8_SitesOf(f)) >= 2
  /\ \E s \in C8_SitesOf(2) : s.inst \notin Range(body[2][1])

----------------------------------------------------------------------------
(* C9.  After every folded rewrite the inttoptr is gone exactly when it    *)
(* has no users, and the add is gone exactly when it has no users; nothing *)
(* else is ever removed, and no instruction of the module has a removed    *)
(* instruction as an operand.                                              *)
C9_Kept(i) == i \in Present
C9_CleanupSound ==
  /\ \A j \in Present : \A k \in 1..Len(insts[j].ops) :
       insts[j].ops[k].k = "inst" => insts[j].ops[k].id \in Present
  /\ \A s \in C2_FoldedSites :
       /\ C9_Kept(s.cast) <=> Users(insts, body, s.cast) # {}
       /\ C9_Kept(s.add) <=> Users(insts, body, s.add) # {}
  /\ (OrigIds \ Present) \subseteq
       UNION {{s.cast, s.add} : s \in C2_FoldedSites}

\* Two accesses shared an inttoptr: it outlived the first rewrite and went
\* with the second, while the add, used elsewhere too, was kept.
C9_Witness ==
  \E s, t \in C2_FoldedSites :
    /\ s.inst # t.inst
    /\ s.cast = t.cast
    /\ ~C9_Kept(s.cast)
    /\ C9_Kept(s.add)

----------------------------------------------------------------------------
(* C10, as claimed.  runOnFunction dispatches every original instruction   *)
(* that is still there when the walk reaches it exactly once and in        *)
(* program order, never an instruction the pass inserted; every address    *)
(* operand of the dispatch table is sandboxed exactly once, and no other   *)
(* operand is changed.                                                     *)
C10_Table(op) ==
  CASE op = "load" -> {0}
    [] op = "store" -> {1}
    [] op \in {"memcpy", "memmove"} -> {0, 1}
    [] op = "memset" -> {0}
    [] op \in {"atomic_load", "atomic_cmpxchg"} -> {0}
    [] op \in {"atomic_store", "atomic_rmw", "atomic_is_lock_free"} -> {1}
    [] OTHER -> {}
C10_OrigOrder ==
  LET RECURSIVE cat(_)
      cat(f) == IF f = 0 THEN <<>> ELSE cat(f - 1) \o Flat(origBody[f])
  IN  cat(Len(origBody))
C10_Pos(i) == CHOOSE n \in 1..Len(C10_OrigOrder) : C10_OrigOrder[n] = i
C10_Walk ==
  /\ \A n \in 1..Len(dispatched) : dispatched[n] \in OrigIds
  /\ \A m, n \in 1..Len(dispatched) :
       m < n => C10_Pos(dispatched[m]) < C10_Pos(dispatched[n])
  /\ pc = "done" => (OrigIds \cap Present) \subseteq Range(dispatched)
  /\ pc = "walk" => Inst \in (OrigIds \cap Present) \ Range(dispatched)
C10_Sites ==
  /\ \A n \in 1..Len(sites) :
       /\ sites[n].inst \in Range(dispatched)
       /\ sites[n].opnum \in C10_Table(origInsts[sites[n].inst].op)
       /\ sites[n].old = OrigOperand(sites[n])
       /\ insts[sites[n].inst].ops[sites[n].opnum + 1].k = "inst"
       /\ insts[sites[n].inst].ops[sites[n].opnum + 1].id
            = sites[n].new[Len(sites[n].new)]
       /\ \A m \in 1..Len(sites) :
            (sites[m].inst = sites[n].inst /\ sites[m].opnum = sites[n].opnum)
              => m = n
  /\ \A i \in Range(dispatched) : \A o \in C10_Table(origInsts[i].op) :
       \E s \in SiteSet : s.inst = i /\ s.opnum = o
C10_ExactlyOnceNothingElseChanged ==
  /\ C10_Walk
  /\ C10_Sites
  /\ \A i \in OrigIds : \A k \in 1..Len(origInsts[i].ops) :
       (k - 1) \notin C10_Table(origInsts[i].op)
         => insts[i].ops[k] = origInsts[i].ops[k]

(* C10, amended.  As claimed, except that the length operand (operand 2)   *)
(* of a memcpy, memmove or memset is changed too: sandboxLenOperand        *)
(* replaces it when W < 32.  No other operand is changed.                  *)
C10_ExactlyOnce ==
  /\ C10_Walk
  /\ C10_Sites
  /\ \A i \in OrigIds : \A k \in 1..Len(origInsts[i].ops) :
       /\ (k - 1) \notin C10_Table(origInsts[i].op)
       /\ ~(origInsts[i].op \in BulkOps /\ k - 1 = 2)
       => insts[i].ops[k] = origInsts[i].ops[k]

\* A run in which instructions the walk had already passed were erased, and
\* a store whose stored value is as it was.
C10_Witness ==
  /\ pc = "done"
  /\ OrigIds \ Present # {}
  /\ Len(dispatched) > 1
  /\ \E s \in SiteSet :
       /\ origInsts[s.inst].op = "store"
       /\ insts[s.inst].ops[1] = origInsts[s.inst].ops[1]

====
